---- MODULE Spec2Model ----
(***************************************************************************)
(* Model of lazytool's episode extraction (src/src/media.rs):              *)
(* Episode::from_path, Episode::from_path_with_regex and                   *)
(* RegexParser::parse, together with the parts of the regex crate and of   *)
(* u16::from_str that decide their results.                                *)
(*                                                                         *)
(* A character is a one-character string; a character outside ASCII is     *)
(* written by its code point ("U+96C6"), and a byte that is not valid      *)
(* UTF-8 is written "0xFF".  A path and a captured text are sequences of   *)
(* characters.  Option<T> is a sequence of length at most one: <<>> is     *)
(* None and <<v>> is Some(v).                                              *)
(***************************************************************************)
EXTENDS Integers, Sequences, FiniteSets

VARIABLES path, entry, matchers, parsers, trace, pc, result

vars == <<path, entry, matchers, parsers, trace, pc, result>>

(***************************************************************************)
(* Characters and character classes of the regex crate (Unicode mode).     *)
(***************************************************************************)
JI == "U+96C6"
DI == "U+7B2C"
LONG == "U+9F99"
MEN == "U+95E8"
ARABIC0 == "U+0660"
ARABIC1 == "U+0661"
ARABIC2 == "U+0662"
InvalidByte == "0xFF"

AsciiDigits == {"0", "1", "2", "3", "4", "5", "6", "7", "8", "9"}

UnicodeDigits == {ARABIC0, ARABIC1, ARABIC2}

AsciiLetters ==
  {"a", "b", "c", "d", "e", "f", "g", "h", "i", "j", "k", "l", "m",
   "n", "o", "p", "q", "r", "s", "t", "u", "v", "w", "x", "y", "z",
   "A", "B", "C", "D", "E", "F", "G", "H", "I", "J", "K", "L", "M",
   "N", "O", "P", "Q", "R", "S", "T", "U", "V", "W", "X", "Y", "Z"}

CjkLetters == {JI, DI, LONG, MEN}

\* Perl classes: \d is any decimal digit (ASCII or not), \w is any word
\* character, \s is white space, . is anything but a line feed.
InClass(c, tok) ==
  CASE tok.cls = "any" -> c # "\n"
    [] tok.cls = "notslash" -> c # "/"
    [] tok.cls = "digit" -> c \in AsciiDigits \cup UnicodeDigits
    [] tok.cls = "word" ->
         c \in AsciiLetters \cup CjkLetters \cup AsciiDigits \cup UnicodeDigits \cup {"_"}
    [] tok.cls = "space" -> c \in {" ", "\t", "\n", "\r", "\f"}
    [] tok.cls = "lit" -> c = tok.ch

(***************************************************************************)
(* A pattern is the sequence of its tokens: ^ and $, the parentheses of    *)
(* the capture groups, and character classes with their repetition.        *)
(***************************************************************************)
Tok(t, cls, ch, min, max, unb, greedy, opt) ==
  [t |-> t, cls |-> cls, ch |-> ch, min |-> min, max |-> max,
   unb |-> unb, greedy |-> greedy, opt |-> opt]

Bol == Tok("bol", "", "", 0, 0, FALSE, TRUE, FALSE)
Eol == Tok("eol", "", "", 0, 0, FALSE, TRUE, FALSE)
Open == Tok("open", "", "", 0, 0, FALSE, TRUE, FALSE)
Close == Tok("close", "", "", 0, 0, FALSE, TRUE, FALSE)
\* the closing parenthesis of (...)?
CloseOpt == Tok("close", "", "", 0, 0, FALSE, TRUE, TRUE)
Lit(c) == Tok("cls", "lit", c, 1, 1, FALSE, TRUE, FALSE)
Rep(cls, m, n) == Tok("cls", cls, "", m, n, FALSE, TRUE, FALSE)
Plus(cls) == Tok("cls", cls, "", 1, 0, TRUE, TRUE, FALSE)
Star(cls) == Tok("cls", cls, "", 0, 0, TRUE, TRUE, FALSE)
LazyStar(cls) == Tok("cls", cls, "", 0, 0, TRUE, FALSE, FALSE)

\* Nesting depth after token i.
Depth(toks, i) ==
  Cardinality({j \in 1..i : toks[j].t = "open"})
    - Cardinality({j \in 1..i : toks[j].t = "close"})

\* Regex::new succeeds: parentheses balance and every {m,n} has m <= n.
WellFormed(toks) ==
  /\ \A i \in 1..Len(toks) : Depth(toks, i) >= 0
  /\ Depth(toks, Len(toks)) = 0
  /\ \A i \in 1..Len(toks) :
       (toks[i].t = "cls" /\ ~toks[i].unb) => toks[i].min <= toks[i].max

\* Capture groups are numbered by their opening parenthesis.
NumGroups(toks) == Cardinality({j \in 1..Len(toks) : toks[j].t = "open"})

GroupOf(toks, k) == Cardinality({j \in 1..k : toks[j].t = "open"})

MinOf(S) == CHOOSE x \in S : \A y \in S : x <= y

MaxOf(S) == CHOOSE x \in S : \A y \in S : x >= y

CloseOf(toks, k) ==
  MinOf({j \in (k + 1)..Len(toks) :
           toks[j].t = "close" /\ Depth(toks, j) = Depth(toks, k) - 1})

OpenOf(toks, j) ==
  MaxOf({k \in 1..(j - 1) :
           toks[k].t = "open" /\ Depth(toks, k) = Depth(toks, j) + 1})

(***************************************************************************)
(* Leftmost-first matching (Regex::captures): the first start position     *)
(* that matches, and at that position the first alternative in the order   *)
(* of preference of each repetition (longest first when greedy, shortest   *)
(* first when lazy).  A configuration is a position k in the pattern, a    *)
(* position pos in the text, the groups seen so far (caps) and the start   *)
(* of the attempt (from).                                                  *)
(***************************************************************************)
Config(k, pos, caps, from) == [k |-> k, pos |-> pos, caps |-> caps, from |-> from]

\* Number of consecutive characters of the class from pos on.
Run(s, pos, tok) ==
  MaxOf({n \in 0..(Len(s) + 1 - pos) :
           \A i \in 0..(n - 1) : InClass(s[pos + i], tok)})

\* The first token after token k that is not a parenthesis (Len(toks) + 1
\* when there is none).
AfterParens(toks, k) ==
  MinOf({j \in (k + 1)..(Len(toks) + 1) :
           j = Len(toks) + 1 \/ toks[j].t \notin {"open", "close"}})

\* Token j, the next after token k to consume or assert something, accepts
\* pos.  (Nothing is decided across the parentheses of an optional group.)
Accepts(toks, s, k, j, pos) ==
  \/ \E i \in (k + 1)..(j - 1) :
       \/ toks[i].t = "close" /\ toks[i].opt
       \/ toks[i].t = "open" /\ toks[CloseOf(toks, i)].opt
  \/ j = Len(toks) + 1
  \/ toks[j].t = "bol" /\ pos = 1
  \/ toks[j].t = "eol" /\ pos = Len(s) + 1
  \/ toks[j].t = "cls" /\ toks[j].min = 0
  \/ toks[j].t = "cls" /\ pos <= Len(s) /\ InClass(s[pos], toks[j])

\* A configuration at pos just after token k does not fail at once.
Admits(toks, s, k, pos) == Accepts(toks, s, k, AfterParens(toks, k), pos)

\* The most characters a repetition may take when run characters of its
\* class follow.
Most(tok, run) == IF tok.unb \/ run < tok.max THEN run ELSE tok.max

\* The numbers of characters a repetition may take, in the order of
\* preference: longest first when greedy, shortest first when lazy.
Counts(tok, run) ==
  IF Most(tok, run) < tok.min THEN <<>>
  ELSE [i \in 1..(Most(tok, run) - tok.min + 1) |->
          IF tok.greedy THEN Most(tok, run) - i + 1 ELSE tok.min + i - 1]

\* The configurations after c that take one of the counts.
Advance(c, counts) ==
  [i \in 1..Len(counts) |-> Config(c.k + 1, c.pos + counts[i], c.caps, c.from)]

\* The configurations that follow c at an opening parenthesis, of group g,
\* closed by token j.
Enter_group(toks, c, g, j) ==
  IF toks[j].opt
  THEN <<Config(c.k + 1, c.pos, [c.caps EXCEPT ![g] = <<c.pos>>], c.from),
         Config(j + 1, c.pos, c.caps, c.from)>>
  ELSE <<Config(c.k + 1, c.pos, [c.caps EXCEPT ![g] = <<c.pos>>], c.from)>>

\* The configuration that follows c at the closing parenthesis of group g.
Leave_group(c, g) ==
  <<Config(c.k + 1, c.pos, [c.caps EXCEPT ![g] = <<c.caps[g][1], c.pos>>], c.from)>>

\* The configurations that follow c, in the order of preference, without
\* those that fail at once.
Successors(toks, s, c) ==
  CASE toks[c.k].t = "bol" ->
         IF c.pos = 1 THEN <<Config(c.k + 1, c.pos, c.caps, c.from)>> ELSE <<>>
    [] toks[c.k].t = "eol" ->
         IF c.pos = Len(s) + 1 THEN <<Config(c.k + 1, c.pos, c.caps, c.from)>> ELSE <<>>
    [] toks[c.k].t = "open" ->
         Enter_group(toks, c, GroupOf(toks, c.k), CloseOf(toks, c.k))
    [] toks[c.k].t = "close" ->
         Leave_group(c, GroupOf(toks, OpenOf(toks, c.k)))
    [] toks[c.k].t = "cls" ->
         Advance(c, SelectSeq(Counts(toks[c.k], Run(s, c.pos, toks[c.k])),
                              LAMBDA n : Admits(toks, s, c.k, c.pos + n)))

\* The first configuration, in the order of preference, that reaches the end
\* of the pattern from one of todo: <<>> when there is none.
RECURSIVE FirstMatch(_, _, _)
FirstMatch(toks, s, todo) ==
  IF todo = <<>> THEN <<>>
  ELSE IF Head(todo).k > Len(toks) THEN <<Head(todo)>>
  ELSE FirstMatch(toks, s, Successors(toks, s, Head(todo)) \o Tail(todo))

\* Every start position, leftmost first, without those that fail at once.
Starts(toks, s) ==
  SelectSeq([start \in 1..(Len(s) + 1) |->
               Config(1, start, [g \in 1..NumGroups(toks) |-> <<>>], start)],
            LAMBDA c : Admits(toks, s, 0, c.pos))

\* The texts of the groups of a match: a group that took no part has none.
\* Group 0 is the whole match.
Groups(toks, s, found) ==
  IF found = <<>> THEN [matched |-> FALSE, groups |-> <<>>]
  ELSE [matched |-> TRUE,
        groups |-> [g \in 0..NumGroups(toks) |->
                      IF g = 0 THEN <<SubSeq(s, found[1].from, found[1].pos - 1)>>
                      ELSE IF Len(found[1].caps[g]) = 2
                           THEN <<SubSeq(s, found[1].caps[g][1], found[1].caps[g][2] - 1)>>
                           ELSE <<>>]]

\* Regex::captures
Captures(toks, s) == Groups(toks, s, FirstMatch(toks, s, Starts(toks, s)))

(***************************************************************************)
(* u16::from_str, as called by season_text.parse() and episode.parse().    *)
(***************************************************************************)
U16Max == 65535

DigitValue(c) ==
  CASE c = "0" -> 0 [] c = "1" -> 1 [] c = "2" -> 2 [] c = "3" -> 3
    [] c = "4" -> 4 [] c = "5" -> 5 [] c = "6" -> 6 [] c = "7" -> 7
    [] c = "8" -> 8 [] c = "9" -> 9

\* Variant: accumulation that wraps around instead of failing.
RECURSIVE AccumulateWrapping(_, _, _)
AccumulateWrapping(ds, i, acc) ==
  IF i > Len(ds) THEN <<acc>>
  ELSE IF ds[i] \notin AsciiDigits THEN <<>>
  ELSE AccumulateWrapping(ds, i + 1, (acc * 10 + DigitValue(ds[i])) % (U16Max + 1))

\* Checked accumulation: a character that is not an ASCII digit, or a
\* value above the maximum, is an error.
RECURSIVE Accumulate(_, _, _)
Accumulate(ds, i, acc) ==
  IF i > Len(ds) THEN <<acc>>
  ELSE IF ds[i] \notin AsciiDigits THEN <<>>
  ELSE LET next == acc * 10 + DigitValue(ds[i])
       IN IF next > U16Max THEN <<>> ELSE Accumulate(ds, i + 1, next)

ParseU16(s) ==
  IF Len(s) = 0 THEN <<>>
  ELSE IF Len(s) = 1 /\ s[1] \in {"+", "-"} THEN <<>>
  ELSE IF s[1] = "+" THEN Accumulate(Tail(s), 1, 0)
  ELSE Accumulate(s, 1, 0)

(***************************************************************************)
(* RegexParser                                                             *)
(***************************************************************************)
RegexParser_new(pattern, indexes) == [pattern |-> pattern, indexes |-> indexes]

\* caps[i] aborts when the pattern has no group i or group i took no part.
HasGroup(caps, i) == i \in DOMAIN caps.groups /\ caps.groups[i] # <<>>

Outcome(matched, panicked, item, seasonText, episodeText) ==
  [matched |-> matched, panicked |-> panicked, item |-> item,
   seasonText |-> seasonText, episodeText |-> episodeText]

\* Variant: Regex::new(&self.pattern).unwrap(), which aborts.
InvalidPatternAborts == Outcome(FALSE, TRUE, <<>>, <<>>, <<>>)

\* Regex::new(&self.pattern).ok()?  on a pattern that does not compile:
\* parse returns None.
InvalidPattern == Outcome(FALSE, FALSE, <<>>, <<>>, <<>>)

\* The value season starts with, kept when the season index is 0.
DefaultSeason == <<1>>

\* Variant: the season index is always read, 0 included.
ReadsSeasonAlways(indexs) == TRUE

\* indexs[1] != 0
ReadsSeason(indexs) == indexs[2] # 0

\* The rest of RegexParser::parse once the pattern is compiled and its
\* captures taken: the record, unless reading a group or an index aborts.
\* The captured texts it parsed are kept beside the record.
Extract(caps, indexs) ==
  IF ~caps.matched THEN Outcome(FALSE, FALSE, <<>>, <<>>, <<>>)
  ELSE IF Len(indexs) < 1 \/ ~HasGroup(caps, indexs[1])
    THEN Outcome(TRUE, TRUE, <<>>, <<>>, <<>>)
  ELSE IF Len(indexs) < 2 \/ (ReadsSeason(indexs) /\ ~HasGroup(caps, indexs[2]))
    THEN Outcome(TRUE, TRUE, <<>>, <<>>, <<>>)
  ELSE IF Len(indexs) < 3 \/ ~HasGroup(caps, indexs[3])
    THEN Outcome(TRUE, TRUE, <<>>, <<>>, <<>>)
  ELSE Outcome(TRUE, FALSE,
               <<[title |-> caps.groups[indexs[1]],
                  season |-> IF ReadsSeason(indexs)
                             THEN ParseU16(caps.groups[indexs[2]][1])
                             ELSE DefaultSeason,
                  episode |-> ParseU16(caps.groups[indexs[3]][1])]>>,
               IF ReadsSeason(indexs) THEN caps.groups[indexs[2]] ELSE <<>>,
               caps.groups[indexs[3]])

\* RegexParser::parse.  Its result is item (None or Some(Episode)) unless
\* it aborts (panicked).
Parse(parser, s) ==
  IF ~WellFormed(parser.pattern) THEN InvalidPattern
  ELSE Extract(Captures(parser.pattern, s), parser.indexes)

(***************************************************************************)
(* Episode::PARSERS                                                        *)
(***************************************************************************)
Pattern1 ==
  <<Bol, Open, LazyStar("any"), Close, Lit("/"), Open, Plus("notslash"), Close,
    Lit("S"), Open, Rep("digit", 2, 2), Close, Lit("."),
    Open, Rep("digit", 1, 2), Close, Lit(JI), Lit("."),
    Open, Rep("digit", 4, 4), Lit("P"), Close, Lit("/"),
    Open, Rep("digit", 2, 2), Close, Lit("."), Open, Plus("word"), Close, Eol>>

Pattern2 ==
  <<Bol, Open, LazyStar("any"), Close, Lit("/"), Open, Plus("notslash"), Close,
    Lit("S"), Open, Rep("digit", 2, 2), Close, Lit("E"),
    Open, Rep("digit", 2, 2), Close, Lit("."), Open, Plus("word"), Close, Eol>>

Pattern3 ==
  <<Bol, Open, LazyStar("any"), Close, Lit("/"), Open, Plus("notslash"), Close,
    Lit("/"), Lit("S"), Open, Rep("digit", 1, 2), Close, Plus("space"),
    Lit("("), Rep("digit", 4, 4), Lit(")"), Plus("space"),
    Rep("digit", 1, 2), Lit("K"), Lit("/"),
    Open, Rep("digit", 2, 2), Close, Lit("."), Open, Plus("word"), Close, Eol>>

Pattern4 ==
  <<Lit("/"), Open, Plus("notslash"), Close, Lit("/"),
    Open, Plus("notslash"), Close, Lit(" "), Lit("("), Star("any"), Lit(")"),
    Lit(" "), Star("any"), Lit("E"), Open, Rep("digit", 2, 2), Close>>

Pattern5 ==
  <<Bol, Open, LazyStar("any"), Close, Lit("/"), Open, Plus("notslash"), Close,
    Lit("."), Open, Rep("digit", 4, 4), Close, Lit("."),
    Open, Rep("digit", 5, 5), Close, Lit("."), Plus("word"), Eol>>

Pattern6 ==
  <<Bol, Open, LazyStar("any"), Close, Lit("/"), Open, Plus("notslash"), Close,
    Lit("."), Lit("1"), Lit("0"), Lit("8"), Lit("0"), Lit("P"), Lit("/"),
    LazyStar("any"), Lit(DI), Open, Rep("digit", 1, 2), Close, Lit(JI),
    Lit("."), Plus("word"), Eol>>

\* Variant: pattern 1 taking the episode from the episode count of the directory
PARSERS_Count ==
  <<<<Pattern1, <<2, 3, 4>>>>,
    <<Pattern2, <<2, 3, 4>>>>,
    <<Pattern3, <<2, 3, 4>>>>,
    <<Pattern4, <<2, 0, 3>>>>,
    <<Pattern5, <<2, 3, 4>>>>,
    <<Pattern6, <<2, 0, 3>>>>>>

\* Variant: patterns 4 and 6 without the 0 in the season position
PARSERS_NoSentinel ==
  <<<<Pattern1, <<2, 3, 6>>>>,
    <<Pattern2, <<2, 3, 4>>>>,
    <<Pattern3, <<2, 3, 4>>>>,
    <<Pattern4, <<2, 3, 3>>>>,
    <<Pattern5, <<2, 3, 4>>>>,
    <<Pattern6, <<2, 3, 3>>>>>>

PARSERS ==
  <<<<Pattern1, <<2, 3, 6>>>>,
    <<Pattern2, <<2, 3, 4>>>>,
    <<Pattern3, <<2, 3, 4>>>>,
    <<Pattern4, <<2, 0, 3>>>>,
    <<Pattern5, <<2, 3, 4>>>>,
    <<Pattern6, <<2, 0, 3>>>>>>

(***************************************************************************)
(* Inputs: paths and caller-supplied matcher lists.                        *)
(***************************************************************************)
MaxDepth == 2

Show == <<"S", "h", "o", "w">>

LongMen == <<LONG, MEN>>

Titles == {Show, LongMen}

ParentDirs == <<"/", "a", "/", "b", "/", "c", "/", "d", "/", "e", "/", "f">>

Prefix(d) == SubSeq(ParentDirs, 1, 2 * d)

\* /t/tS01.37<JI>.1080P/01.mkv
Conv1Tail(t) == <<"/">> \o t \o <<"/">> \o t \o <<"S", "0", "1", ".", "3", "7", JI, ".", "1", "0", "8", "0", "P", "/", "0", "1", ".", "m", "k", "v">>

\* /tS01E02.mp4
Conv2Tail(t) == <<"/">> \o t \o <<"S", "0", "1", "E", "0", "2", ".", "m", "p", "4">>

\* /t/S4 (2014) 4K/01.mp4
Conv3Tail(t) == <<"/">> \o t \o <<"/", "S", "4", " ", "(", "2", "0", "1", "4", ")", " ", "4", "K", "/", "0", "1", ".", "m", "p", "4">>

\* /t/t (2013) 4K/t.2013.E02.4K.mp4
Conv4Tail(t) == <<"/">> \o t \o <<"/">> \o t \o <<" ", "(", "2", "0", "1", "3", ")", " ", "4", "K", "/">> \o t \o <<".", "2", "0", "1", "3", ".", "E", "0", "2", ".", "4", "K", ".", "m", "p", "4">>

\* /t.2009.01201.mp4
Conv5Tail(t) == <<"/">> \o t \o <<".", "2", "0", "0", "9", ".", "0", "1", "2", "0", "1", ".", "m", "p", "4">>

\* /t.2009.99999.mp4: the episode is above the largest u16
Conv5HugeTail(t) == <<"/">> \o t \o <<".", "2", "0", "0", "9", ".", "9", "9", "9", "9", "9", ".", "m", "p", "4">>

\* /t.2009.65535.mp4: the episode is the largest u16
Conv5MaxTail(t) == <<"/">> \o t \o <<".", "2", "0", "0", "9", ".", "6", "5", "5", "3", "5", ".", "m", "p", "4">>

\* /t.2009.65536.mp4: the episode is one above the largest u16
Conv5OverTail(t) == <<"/">> \o t \o <<".", "2", "0", "0", "9", ".", "6", "5", "5", "3", "6", ".", "m", "p", "4">>

\* /t.1080P/t<DI>04<JI>.mp4
Conv6Tail(t) == <<"/">> \o t \o <<".", "1", "0", "8", "0", "P", "/">> \o t \o <<DI, "0", "4", JI, ".", "m", "p", "4">>

\* /t (2013) 4K/tS02E05.mp4: convention 2 and, below a parent directory, convention 4
Conv2And4Tail(t) == <<"/">> \o t \o <<" ", "(", "2", "0", "1", "3", ")", " ", "4", "K", "/">> \o t \o <<"S", "0", "2", "E", "0", "5", ".", "m", "p", "4">>

\* /t (2013) 4K/t.S02E05.4K.mp4: convention 4 below a parent directory, with an SddEdd marker
Conv4MarkedTail(t) == <<"/">> \o t \o <<" ", "(", "2", "0", "1", "3", ")", " ", "4", "K", "/">> \o t \o <<".", "S", "0", "2", "E", "0", "5", ".", "4", "K", ".", "m", "p", "4">>

\* /tS02.1080P/<DI>04<JI>.mp4: convention 6 with an Sdd marker
Conv6MarkedTail(t) == <<"/">> \o t \o <<"S", "0", "2", ".", "1", "0", "8", "0", "P", "/", DI, "0", "4", JI, ".", "m", "p", "4">>

\* convention 2 with season and episode in Arabic-Indic digits
Conv2ArabicTail(t) == <<"/">> \o t \o <<"S", ARABIC0, ARABIC1, "E", ARABIC0, ARABIC2, ".", "m", "p", "4">>

\* convention 2 with the episode in Arabic-Indic digits
Conv2ArabicEpisodeTail(t) == <<"/">> \o t \o <<"S", "0", "1", "E", ARABIC0, ARABIC2, ".", "m", "p", "4">>

\* convention 2 with the season in Arabic-Indic digits
Conv2ArabicSeasonTail(t) == <<"/">> \o t \o <<"S", ARABIC0, ARABIC1, "E", "0", "2", ".", "m", "p", "4">>

\* /t.mp4: no convention
PlainTail(t) == <<"/">> \o t \o <<".", "m", "p", "4">>

\* /01.mkv: no convention
BareTail == <<"/", "0", "1", ".", "m", "k", "v">>

\* not valid UTF-8
InvalidTail(t) == <<"/">> \o t \o <<InvalidByte>>

Tails(t) ==
  {Conv1Tail(t), Conv2Tail(t), Conv3Tail(t),
   Conv4Tail(t), Conv5Tail(t), Conv5HugeTail(t),
   Conv5MaxTail(t), Conv5OverTail(t), Conv6Tail(t),
   Conv2And4Tail(t), Conv4MarkedTail(t), Conv6MarkedTail(t),
   Conv2ArabicTail(t), Conv2ArabicEpisodeTail(t), Conv2ArabicSeasonTail(t),
   PlainTail(t), BareTail, InvalidTail(t)}

Paths ==
  {<<>>} \cup
  {Prefix(d) \o tail : d \in 0..MaxDepth, tail \in UNION {Tails(t) : t \in Titles}}

\* (\d{2}   and   \d{2,1}
UnclosedGroup == <<Open, Rep("digit", 2, 2)>>

BadRepetition == <<Rep("digit", 2, 1)>>

\* \d{2}
TwoDigits == <<Rep("digit", 2, 2)>>

\* S(\d{2})
SeasonTag == <<Lit("S"), Open, Rep("digit", 2, 2), Close>>

\* S(\d{2})(E\d{2})?
SeasonEpisodeTag ==
  <<Lit("S"), Open, Rep("digit", 2, 2), Close,
    Open, Lit("E"), Rep("digit", 2, 2), CloseOpt>>

CustomLists ==
  { <<>>,
    <<RegexParser_new(Pattern4, <<2, 0, 3>>), RegexParser_new(Pattern2, <<2, 3, 4>>)>>,
    <<RegexParser_new(UnclosedGroup, <<1, 0, 1>>),
      RegexParser_new(BadRepetition, <<0, 0, 0>>),
      RegexParser_new(Pattern2, <<2, 3, 4>>)>>,
    <<RegexParser_new(TwoDigits, <<0, 0, 0>>)>>,
    <<RegexParser_new(Pattern5, <<2, 3, 4>>), RegexParser_new(SeasonTag, <<1, 0, 2>>)>>,
    <<RegexParser_new(SeasonTag, <<1, 0>>)>>,
    <<RegexParser_new(SeasonEpisodeTag, <<1, 1, 2>>)>> }

(***************************************************************************)
(* Episode::from_path and Episode::from_path_with_regex                    *)
(***************************************************************************)
Pending == [kind |-> "Pending", item |-> <<>>]

Ok(item) == [kind |-> "Ok", item |-> item]

Err == [kind |-> "Err", item |-> <<>>]

Aborted == [kind |-> "Panic", item |-> <<>>]

\* Variant: a conversion that never fails.
to_str_lossy(p) == <<p>>

\* Path::to_str: None unless the path is valid UTF-8.
to_str(p) == IF \E i \in 1..Len(p) : p[i] = InvalidByte THEN <<>> ELSE <<p>>

\* The vector from_path builds from PARSERS.
BuiltinParsers ==
  [i \in 1..Len(PARSERS) |-> RegexParser_new(PARSERS[i][1], PARSERS[i][2])]

\* Variant: the list taken from its end.
IterateBackwards(ps) == [next |-> ps[Len(ps)], rest |-> SubSeq(ps, 1, Len(ps) - 1)]

\* for parser in parsers: the matcher taken next and those left.
Iterate(ps) == [next |-> Head(ps), rest |-> Tail(ps)]

\* item.is_some()
is_some(item) == item # <<>>

\* Variant: an error when no matcher yields a record.
ExhaustedIsError == Err

\* The value returned after the loop.
Exhausted == Ok(<<>>)

TypeOK ==
  /\ path \in Paths
  /\ entry \in {"none", "from_path", "from_path_with_regex"}
  /\ pc \in {"idle", "loop", "done", "panicked"}
  /\ result.kind \in {"Pending", "Ok", "Err", "Panic"}
  /\ Len(trace) + Len(parsers) <= Len(matchers)

Init ==
  /\ path \in Paths
  /\ entry = "none"
  /\ matchers = <<>>
  /\ parsers = <<>>
  /\ trace = <<>>
  /\ pc = "idle"
  /\ result = Pending

\* from_path_with_regex up to its loop: the path is converted first.
Enter(name, list) ==
  /\ pc = "idle"
  /\ entry' = name
  /\ matchers' = list
  /\ parsers' = list
  /\ IF to_str(path) = <<>>
       THEN pc' = "done" /\ result' = Err
       ELSE pc' = "loop" /\ result' = result
  /\ UNCHANGED <<path, trace>>

FromPath == Enter("from_path", BuiltinParsers)

FromPathWithRegex == \E list \in CustomLists : Enter("from_path_with_regex", list)

\* One turn of the loop, on the outcome of parser.parse(path_str): the item
\* is returned if there is one.
Returns(out, rest) ==
  /\ ~out.panicked /\ is_some(out.item)
  /\ trace' = Append(trace, out)
  /\ parsers' = rest
  /\ result' = Ok(out.item)
  /\ pc' = "done"

Continues(out, rest) ==
  /\ ~out.panicked /\ ~is_some(out.item)
  /\ trace' = Append(trace, out)
  /\ parsers' = rest
  /\ UNCHANGED <<pc, result>>

\* parse aborts: the call never returns.
Aborts(out, rest) ==
  /\ out.panicked
  /\ trace' = Append(trace, out)
  /\ parsers' = rest
  /\ result' = Aborted
  /\ pc' = "panicked"

LoopReturn ==
  /\ pc = "loop" /\ parsers # <<>>
  /\ Returns(Parse(Iterate(parsers).next, to_str(path)[1]), Iterate(parsers).rest)
  /\ UNCHANGED <<path, entry, matchers>>

LoopContinue ==
  /\ pc = "loop" /\ parsers # <<>>
  /\ Continues(Parse(Iterate(parsers).next, to_str(path)[1]), Iterate(parsers).rest)
  /\ UNCHANGED <<path, entry, matchers>>

LoopPanic ==
  /\ pc = "loop" /\ parsers # <<>>
  /\ Aborts(Parse(Iterate(parsers).next, to_str(path)[1]), Iterate(parsers).rest)
  /\ UNCHANGED <<path, entry, matchers>>

\* The list is exhausted: Ok(None).
LoopExit ==
  /\ pc = "loop" /\ parsers = <<>>
  /\ result' = Exhausted
  /\ pc' = "done"
  /\ UNCHANGED <<path, entry, matchers, parsers, trace>>

Next ==
  \/ FromPath
  \/ FromPathWithRegex
  \/ LoopReturn
  \/ LoopContinue
  \/ LoopPanic
  \/ LoopExit

Spec == Init /\ [][Next]_vars

(***************************************************************************)
(* Properties                                                              *)
(***************************************************************************)
\* The path is text: it holds no byte that is not valid UTF-8.
IsText(p) == \A i \in 1..Len(p) : p[i] # InvalidByte

Ep(t, s, e) == <<[title |-> <<t>>, season |-> <<s>>, episode |-> <<e>>]>>

\* The matchers of the list whose parse yields a record for the path.
Hits == {k \in 1..Len(matchers) : Parse(matchers[k], path).item # <<>>}

\* The number a text of ASCII digits denotes.
RECURSIVE DecimalValue(_)
DecimalValue(s) ==
  IF s = <<>> THEN 0
  ELSE DecimalValue(SubSeq(s, 1, Len(s) - 1)) * 10 + DigitValue(s[Len(s)])

\* The field a captured text gives: its number when it is a text of ASCII
\* digits denoting at most 65535, absent otherwise.
Expected(s) ==
  IF s # <<>> /\ (\A i \in 1..Len(s) : s[i] \in AsciiDigits) /\ DecimalValue(s) <= 65535
  THEN <<DecimalValue(s)>>
  ELSE <<>>

\* C1: a call that returns a record returns the record of the lowest-indexed
\* matcher whose parse yields one, has invoked the matchers up to that one
\* and no matcher after it; a call that returns no record found no matcher
\* yielding one.
C1_FirstMatchWins ==
  (pc = "done" /\ result.kind = "Ok") =>
    IF result.item # <<>>
    THEN /\ Hits # {}
         /\ Len(trace) = MinOf(Hits)
         /\ result.item = Parse(matchers[MinOf(Hits)], path).item
         /\ parsers = SubSeq(matchers, MinOf(Hits) + 1, Len(matchers))
    ELSE Hits = {}

\* A record was returned although a matcher further down the list, never
\* invoked, yields a different record for the same path.
C1_Witness ==
  /\ pc = "done" /\ result.item # <<>>
  /\ \E j \in (Len(trace) + 1)..Len(matchers) :
       LET later == Parse(matchers[j], path).item
       IN later # <<>> /\ later # result.item

C4_NumericFields ==
  \A i \in 1..Len(trace) :
    LET o == trace[i] IN
    o.item # <<>> =>
      /\ Len(o.item[1].title) = 1
      /\ o.item[1].episode = Expected(o.episodeText[1])
      /\ o.seasonText # <<>> => o.item[1].season = Expected(o.seasonText[1])
      /\ o.episodeText[1] = <<"0", "1", "2", "0", "1">> => o.item[1].episode = <<1201>>

\* The episode text 99999 left the episode absent in a record returned with
\* title and season 2009.
C4_Witness ==
  /\ pc = "done" /\ result.item # <<>>
  /\ trace[Len(trace)].episodeText = <<<<"9", "9", "9", "9", "9">>>>
  /\ result.item[1].episode = <<>>
  /\ result.item[1].season = <<2009>>
  /\ result.item[1].title = <<Show>>

\* C5: a call on a text path whose list holds no matcher yielding a record
\* (each parse returns None, or the list is empty) returns Ok(None).
C5_NoMatchIsOkNone ==
  (/\ pc \in {"done", "panicked"}
   /\ IsText(path)
   /\ \A k \in 1..Len(matchers) :
        LET o == Parse(matchers[k], path) IN ~o.panicked /\ o.item = <<>>) =>
    pc = "done" /\ result = Ok(<<>>)

\* from_path has tried all six patterns and returned Ok(None).
C5_Witness ==
  /\ pc = "done" /\ entry = "from_path" /\ Len(trace) = 6
  /\ result = Ok(<<>>)

C7_ErrorIffNotText ==
  pc # "idle" =>
    /\ (result.kind = "Err") <=> ~IsText(path)
    /\ result.kind = "Err" => trace = <<>> /\ parsers = matchers
    /\ (pc = "done" /\ IsText(path)) => result.kind = "Ok"

\* A call with a non-empty list has failed on a path that is not text.
C7_Witness ==
  /\ pc = "done" /\ result.kind = "Err" /\ matchers # <<>> /\ ~IsText(path)

\* C9 as stated: parse never aborts.
C9_ParseNeverAborts ==
  /\ pc # "panicked"
  /\ \A i \in 1..Len(trace) : ~trace[i].panicked

\* C10: a record comes only from a structural match of a well-formed
\* pattern; its title is the text of the title group, verbatim; with 0 in
\* the season position the season is 1 and no captured text is parsed for it.
C10_SentinelAndTitle ==
  \A i \in 1..Len(trace) :
    LET o == trace[i]
        m == matchers[i]
    IN o.item # <<>> =>
         /\ o.matched
         /\ WellFormed(m.pattern)
         /\ Captures(m.pattern, path).matched
         /\ o.item[1].title = Captures(m.pattern, path).groups[m.indexes[1]]
         /\ m.indexes[2] = 0 => (o.item[1].season = <<1>> /\ o.seasonText = <<>>)

\* The field map [0,0,0] gave season 1 although the whole match, "20",
\* which is also the title and the episode, denotes 20.
C10_Witness ==
  /\ pc = "done" /\ Len(matchers) = 1 /\ matchers[1].indexes = <<0, 0, 0>>
  /\ result = Ok(Ep(<<"2", "0">>, 1, 20))

====
